---- MODULE Spec2Model ----
(***************************************************************************)
(* State-machine model of the AnalyticsSDK event queue (src/src/queue.ts)  *)
(* and of the localStorage wrapper it persists to                          *)
(* (src/src/utils/storage.ts).                                             *)
(*                                                                         *)
(* One EventQueue instance lives in one page/process.  The page can be     *)
(* reloaded: the instance and every promise of the old page are gone, the  *)
(* localStorage content stays, and a new EventQueue is constructed on it.  *)
(* The sender (onFlush) returns a promise that the environment resolves or *)
(* rejects at any later moment, or never.                                  *)
(***************************************************************************)
EXTENDS Integers, Sequences, FiniteSets, TLC

(* ------------------------------ bounds -------------------------------- *)
\* number of add() calls over the whole run (event ids are 1..MaxAdds)
MaxAdds == 3
\* number of sender invocations the environment rejects over the whole run
MaxFailures == 1
\* number of page reloads (constructions of a new queue on the same storage)
MaxRestarts == 1
\* config.batchSize given to the constructor
batchSize == 2

(* ------------------------------ events -------------------------------- *)
\* An Event is abstracted to its identity (the order of add() calls) and one
\* property value.  A property whose value is undefined exists in memory and
\* is dropped by JSON.stringify, so the persisted image lacks it ("absent").
PropValues == {"undefined", "v"}

Event == [id : 1..MaxAdds, prop : PropValues \cup {"absent"}]

\* The n-th event the application passes to add(): the odd ones carry a
\* property whose value is undefined, the even ones a defined one.
NewEvent(n) == [id |-> n, prop |-> IF n % 2 = 1 THEN "undefined" ELSE "v"]

\* JSON.stringify followed by JSON.parse of one event
JSONEvent(e) == [id |-> e.id, prop |-> IF e.prop = "undefined" THEN "absent" ELSE e.prop]

\* JSON.parse(JSON.stringify(evs)) of an event array
JSONRoundTrip(evs) == [i \in DOMAIN evs |-> JSONEvent(evs[i])]

(* ------------------------------ storage ------------------------------- *)
\* Content of the localStorage entry 'analytics_queue_events':
\*   absent       no such key (getItem returns null)
\*   unparseable  a string JSON.parse throws on
\*   nonarray     JSON text of a value that is not an array
\*   array        JSON text of an array of events (val)
AbsentSlot == [kind |-> "absent", val |-> <<>>]
UnparseableSlot == [kind |-> "unparseable", val |-> <<>>]
NonArraySlot == [kind |-> "nonarray", val |-> <<>>]
ArraySlot(evs) == [kind |-> "array", val |-> JSONRoundTrip(evs)]

\* bug variant: a failed write leaves the entry removed
StorageSetLosesOld(s, evs, ok) == IF ok THEN ArraySlot(evs) ELSE AbsentSlot

\* Storage.set('events', value): overwrite with the JSON text; a throwing
\* setItem is caught and leaves the entry as it was
StorageSet(s, evs, ok) == IF ok THEN ArraySlot(evs) ELSE s

\* Storage.clear(): remove every key starting with the prefix; a throwing
\* localStorage access is caught and leaves the entry as it was
StorageClear(s, ok) == IF ok THEN AbsentSlot ELSE s

\* bug variant: a read that throws still yields the stored value
StorageGetStale(s, ok) ==
    IF s.kind \in {"array", "nonarray"} THEN s ELSE AbsentSlot

\* Storage.get('events'): the parsed value, or null when the key is absent,
\* the text does not parse or localStorage throws
StorageGet(s, ok) ==
    IF ok /\ s.kind \in {"array", "nonarray"} THEN s ELSE AbsentSlot

\* bug variant: the stored value is read and not adopted
loadNothing(s, ok) == <<>>

\* EventQueue.loadPersistedEvents: adopt the stored value when it is an array
loadPersistedEvents(s, ok) ==
    LET persisted == StorageGet(s, ok)
    IN  IF persisted.kind = "array" THEN persisted.val ELSE <<>>

\* localStorage keys, as the sequence of their parts separated by '_':
\* the queue's Storage has the prefix 'analytics_queue_' and the key 'events',
\* the AnalyticsClient's Storage the prefix 'analytics_' and the key 'user'
QueuePrefix == <<"analytics", "queue">>
ClientPrefix == <<"analytics">>
QueueKey == QueuePrefix \o <<"events">>
UserKey == ClientPrefix \o <<"user">>

\* key.startsWith(prefix)
startsWith(key, prefix) == Len(prefix) <= Len(key) /\ SubSeq(key, 1, Len(prefix)) = prefix

\* Storage.clear() of a Storage with the given prefix, seen from the entry
\* `key` with content s: removed (content `absent`) when the key starts
\* with the prefix and localStorage does not throw
ClearByPrefix(prefix, key, s, absent, ok) ==
    IF ok /\ startsWith(key, prefix) THEN absent ELSE s

(* ------------------------------- facade ------------------------------- *)
\* strings that matter for validation, as sequences of characters
Blank == " "

\* event names passed to track()
EventNames == {<<>>, <<Blank, Blank>>, <<Blank, "a">>}

\* String.prototype.trim
RECURSIVE trimStart(_)
trimStart(str) ==
    IF str # <<>> /\ Head(str) = Blank THEN trimStart(Tail(str)) ELSE str

RECURSIVE trimEnd(_)
trimEnd(str) ==
    IF str # <<>> /\ str[Len(str)] = Blank THEN trimEnd(SubSeq(str, 1, Len(str) - 1)) ELSE str

trim(str) == trimEnd(trimStart(str))

\* bug variant: the name is not trimmed before the test
validateEventNoTrim(name) == name # <<>>

\* validateEvent(event), for an event built by track(): the name test
\* !event.name || event.name.trim() === ''
validateEvent(name) == ~(name = <<>> \/ trim(name) = <<>>)

\* users passed to identify(): id and email (undefined or a string)
Users ==
    {[id |-> <<Blank>>, email |-> "e"], [id |-> <<"u">>, email |-> "undefined"],
     [id |-> <<"w">>, email |-> "e"]}

\* validateUser(user): the id test !user.id || user.id.trim() === ''
validateUser(u) == ~(u.id = <<>> \/ trim(u.id) = <<>>)

\* JSON.parse(JSON.stringify(user)): an undefined email is dropped
JSONUser(u) == [id |-> u.id, email |-> IF u.email = "undefined" THEN "absent" ELSE u.email]

\* the event track() builds: properties.userId is this.user?.id
TrackEvent(n, user) == [id |-> n, prop |-> IF user = <<>> THEN "undefined" ELSE "v"]

\* bug variant: identify() does not write the user record
userNotPersisted(us, u, ok) == us

\* identify(): this.storage.set('user', user)
persistUser(us, u, ok) == IF ok THEN <<JSONUser(u)>> ELSE us

\* loadUser(): this.storage.get('user'), adopted if present
loadUser(us, ok) == IF ok THEN us ELSE <<>>

\* what fetch and the endpoint did for one request
\*   transport  "ok" | "error" (fetch rejected)
\*   ok         response.ok
\*   body       "success" | "failure" (success is false) | "unparseable" |
\*              "none" (no response)
Responses ==
    {[transport |-> "error", ok |-> FALSE, body |-> "none"],
     [transport |-> "ok", ok |-> FALSE, body |-> "success"],
     [transport |-> "ok", ok |-> TRUE, body |-> "unparseable"],
     [transport |-> "ok", ok |-> TRUE, body |-> "failure"],
     [transport |-> "ok", ok |-> TRUE, body |-> "success"]}

NoResponse == [transport |-> "none", ok |-> FALSE, body |-> "none"]

\* bug variant: the success flag of the body is not tested
sendBatchIgnoresFlag(r) ==
    IF r.transport = "error" THEN "rejected"
    ELSE IF ~r.ok THEN "rejected"
    ELSE IF r.body = "unparseable" THEN "rejected"
    ELSE "resolved"

\* AnalyticsClient.sendBatch: the promise it returns
sendBatch(r) ==
    IF r.transport = "error" THEN "rejected"
    ELSE IF ~r.ok THEN "rejected"
    ELSE IF r.body = "unparseable" THEN "rejected"
    ELSE IF r.body = "failure" THEN "rejected"
    ELSE "resolved"

\* the facade call kept in client.call
\*   op        "none" | "track" | "identify" | "reset" | "response" | "construct"
\*   name      the event name passed to track()
\*   user      the user passed to identify()
\*   response  the response to the request of sendBatch
\*   threw     the call threw
\*   mid       reset(): the queue's entry between this.storage.clear() and
\*             this.queue.clear()
Call(op, name, user, response, threw, mid) ==
    [op |-> op, name |-> name, user |-> user, response |-> response, threw |-> threw,
     mid |-> mid]

NoCall == Call("none", <<>>, <<>>, NoResponse, FALSE, [kind |-> "absent", val |-> <<>>])

\* no AnalyticsClient, or one that has no user and has not been called
\*   user      this.user (<<>> for undefined)
\*   userSlot  the entry 'analytics_user' (<<>> when absent)
\*   resetAt   history: the id the next event had at the last reset()
NoClient == [user |-> <<>>, userSlot |-> <<>>, call |-> NoCall, resetAt |-> 0]

(* ------------------------------- state -------------------------------- *)
VARIABLES
    events,        \* this.events: the pending sequence
    isProcessing,  \* this.isProcessing
    timerActive,   \* the setInterval timer is registered and not cleared
    slot,          \* localStorage entry 'analytics_queue_events'
    storageOk,     \* localStorage operations succeed
    senderThrows,  \* the sender throws when called instead of returning a promise
    outstanding,   \* sender invocations started and not settled (their eventsToSend)
    sent,          \* history: batches handed to the sender by this instance
    delivered,     \* history: batches whose sender invocation resolved
    restored,      \* history: events this instance loaded at construction
    adds,          \* history: add() calls on this instance
    onlyAdds,      \* history: nothing but add() was called on this instance
    nextId,        \* id of the next event passed to add()
    failures,      \* rejections so far
    restarts,      \* page reloads so far
    hist,          \* history of this instance: clear() calls and the last failed batch
    last,          \* the operation that made the last step
    other,         \* a second EventQueue constructed on the same page, if any
    client         \* the AnalyticsClient that owns the queue, if the application uses one

vars == <<events, isProcessing, timerActive, slot, storageOk, senderThrows, outstanding, sent,
          delivered, restored, adds, onlyAdds, nextId, failures, restarts, hist, last, other,
          client>>

\* the operation record kept in `last`
\*   op       "construct" | "add" | "flush" | "tick" | "clear" | "destroy" |
\*            "resolve" | "reject"
\*   started  the step invoked the sender
\*   cause    who called flush() for the invocation concerned
\*   pre      the pending sequence when the operation was called (for a
\*            settlement: when flush() resumed)
\*   batch    the batch of the invocation started or settled by the step
\*   atCall   for a settlement: the pending sequence when that flush() was called
\*   promise  the promise of the flush() concerned after the step:
\*            "none" (no flush() involved) | "pending" | "resolved" | "rejected"
\*   beacon   the payloads the step handed to navigator.sendBeacon
Op(op, started, cause, pre, batch, atCall) ==
    [op |-> op, started |-> started, cause |-> cause, pre |-> pre, batch |-> batch,
     atCall |-> atCall, promise |-> "none", beacon |-> <<>>]

\* the history record kept in `hist`
\*   cleared        clear() was called on this instance
\*   failed         the batch of the last rejected invocation, as long as no
\*                  sender invocation has started since (else <<>>)
\*   failedCleared  clear() was called since that rejection
\*   destroyed      "no" until destroy() is called, then "idle" or "busy" as
\*                  the last destroy() found the processing flag, and
\*                  "settled" once the delivery it found in flight settled
NoHistory == [cleared |-> FALSE, failed |-> <<>>, failedCleared |-> FALSE, destroyed |-> "no"]

\* no second instance has been constructed
NoOther == [live |-> FALSE, events |-> <<>>, isProcessing |-> FALSE]

InitialSlots == {AbsentSlot, UnparseableSlot, NonArraySlot}

\* new EventQueue(config, onFlush) in a fresh page
Init ==
    /\ slot \in InitialSlots
    /\ storageOk = TRUE
    /\ senderThrows = FALSE
    /\ events = loadPersistedEvents(slot, storageOk)
    /\ isProcessing = FALSE
    /\ timerActive = TRUE
    /\ outstanding = <<>>
    /\ sent = <<>>
    /\ delivered = <<>>
    /\ restored = events
    /\ adds = 0
    /\ onlyAdds = TRUE
    /\ nextId = 1
    /\ failures = 0
    /\ restarts = 0
    /\ hist = NoHistory
    /\ last = Op("construct", FALSE, "none", <<>>, <<>>, <<>>)
    /\ other = NoOther
    /\ client = NoClient

(* --------------------------- EventQueue code --------------------------- *)
\* add(): this.events.push(event)
push(evs, e) == Append(evs, e)

\* bug variant: the threshold is compared with > instead of >=
thresholdStrict(evs) == Len(evs) > batchSize

\* bug variant: the threshold is reached one event early
thresholdEarly(evs) == Len(evs) >= batchSize - 1

\* add(): if (this.events.length >= this.config.batchSize)
thresholdReached(evs) == Len(evs) >= batchSize

\* bug variant: the guard does not test this.isProcessing
flushIgnoresProcessing(evs, processing) == Len(evs) = 0

\* bug variant: the guard does not test for an empty pending sequence
flushIgnoresEmpty(evs, processing) == processing

\* flush(): if (this.events.length === 0 || this.isProcessing) return
flushReturnsEarly(evs, processing) == Len(evs) = 0 \/ processing

\* bug variant: flush() does not set the flag
processingNotSet(processing) == processing

\* flush(): this.isProcessing = true
processingAfterStart(processing) == TRUE

\* bug variant: the batch is cut to batchSize events
eventsToSendCut(evs) == SubSeq(evs, 1, IF Len(evs) < batchSize THEN Len(evs) ELSE batchSize)

\* flush(): const eventsToSend = [...this.events]
eventsToSend(evs) == evs

\* bug variant: the pending sequence is not emptied after the snapshot
eventsKeptAfterSnapshot(evs) == evs

\* flush(): this.events = [] after the snapshot
eventsAfterSnapshot(evs) == <<>>

\* bug variant: the failed batch is appended (push) instead of prepended
requeueAtTail(batch, evs) == evs \o batch

\* bug variant: the catch block does not put the batch back
requeueDropsBatch(batch, evs) == evs

\* flush(), catch: this.events.unshift(...eventsToSend)
requeue(batch, evs) == batch \o evs

\* bug variant: the flag is not reset after the settlement
processingStaysSet(processing) == processing

\* flush(), finally: this.isProcessing = false
processingAfterSettle(processing) == FALSE

\* bug variant: the catch block throws the error again after the requeue
settledPromiseRethrows(senderFailed) == IF senderFailed THEN "rejected" ELSE "resolved"

\* flush(), try/catch/finally: the catch block logs and requeues and does not
\* throw, so the async function completes normally after either outcome
settledPromise(senderFailed) == "resolved"

\* bug variant: persistEvents() writes nothing
persistNothing(s, evs) == s

\* persistEvents(): this.storage.set('events', this.events)
persistEvents(s, evs) == StorageSet(s, evs, storageOk)

\* clear(): this.events = []
eventsAfterClear(evs) == <<>>

\* bug variant: clear() forgets the storage
slotKeptByClear(s) == s

\* clear(): this.storage.clear(), for the queue's own entry
slotAfterClear(s) == ClearByPrefix(QueuePrefix, QueueKey, s, AbsentSlot, storageOk)

\* bug variant: destroy() leaves the interval running
timerKeptByDestroy(t) == t

\* destroy(): if (this.timer) clearInterval(this.timer)
timerAfterDestroy(t) == FALSE

\* the history entry for a settlement
SettledAfterDestroy(d) == IF d = "busy" THEN "settled" ELSE d

\* bug variant: the beforeunload listener sends a beacon even with nothing pending
beaconAlways(evs) == <<[url |-> "/api/analytics", events |-> JSONRoundTrip(evs)]>>

\* the navigator.sendBeacon calls of the beforeunload listener: one call with
\* the body JSON.stringify({ events: this.events }) if (this.events.length > 0)
beaconCalls(evs) ==
    IF Len(evs) > 0
    THEN <<[url |-> "/api/analytics", events |-> JSONRoundTrip(evs)]>>
    ELSE <<>>

\* startTimer(): the interval callback calls flush() if (this.events.length > 0)
timerCallsFlush(evs) == Len(evs) > 0

\* flush() called by `cause` with pending sequence evs and slot content s,
\* up to the suspension at `await this.onFlush(eventsToSend)`; when the sender
\* throws instead of returning a promise, the catch and finally blocks run
\* before flush() returns
flush(evs, s, cause, op, pre) ==
    IF flushReturnsEarly(evs, isProcessing)
    THEN /\ events' = evs
         /\ slot' = s
         /\ UNCHANGED <<isProcessing, outstanding, sent, hist, failures>>
         /\ last' = [Op(op, FALSE, cause, pre, <<>>, evs) EXCEPT !.promise = "resolved"]
    ELSE IF ~senderThrows
    THEN /\ isProcessing' = processingAfterStart(isProcessing)
         /\ events' = eventsAfterSnapshot(evs)
         /\ slot' = persistEvents(s, eventsAfterSnapshot(evs))
         /\ outstanding' = Append(outstanding, [batch |-> eventsToSend(evs), cause |-> cause, atCall |-> evs])
         /\ sent' = Append(sent, eventsToSend(evs))
         /\ hist' = [hist EXCEPT !.failed = <<>>, !.failedCleared = FALSE]
         /\ UNCHANGED failures
         /\ last' = [Op(op, TRUE, cause, pre, eventsToSend(evs), evs) EXCEPT !.promise = "pending"]
    ELSE /\ failures < MaxFailures
         /\ failures' = failures + 1
         /\ isProcessing' = processingAfterSettle(processingAfterStart(isProcessing))
         /\ events' = requeue(eventsToSend(evs), eventsAfterSnapshot(evs))
         /\ slot' = persistEvents(persistEvents(s, eventsAfterSnapshot(evs)),
                                  requeue(eventsToSend(evs), eventsAfterSnapshot(evs)))
         /\ UNCHANGED outstanding
         /\ sent' = Append(sent, eventsToSend(evs))
         /\ hist' = [hist EXCEPT !.failed = eventsToSend(evs), !.failedCleared = FALSE]
         /\ last' = [Op(op, TRUE, cause, pre, eventsToSend(evs), evs)
                        EXCEPT !.promise = settledPromise(TRUE)]

\* queue.add(e)
QueueAdd(e) ==
    /\ nextId <= MaxAdds
    /\ LET evs == push(events, e)
           s == persistEvents(slot, evs)
       IN  IF thresholdReached(evs)
           THEN flush(evs, s, "add", "add", events)
           ELSE /\ events' = evs
                /\ slot' = s
                /\ UNCHANGED <<isProcessing, outstanding, sent, hist, failures>>
                /\ last' = Op("add", FALSE, "none", events, <<>>, <<>>)
    /\ nextId' = nextId + 1
    /\ adds' = adds + 1
    /\ UNCHANGED <<timerActive, storageOk, senderThrows, delivered, restored, onlyAdds, restarts,
                   other>>

\* queue.add(event) called by the application
Add ==
    /\ QueueAdd(NewEvent(nextId))
    /\ UNCHANGED client

\* queue.flush() called by the application (also AnalyticsClient.flush)
Flush ==
    /\ flush(events, slot, "explicit", "flush", events)
    /\ onlyAdds' = FALSE
    /\ UNCHANGED <<timerActive, storageOk, senderThrows, delivered, restored, adds, nextId, restarts,
                   other, client>>

\* the setInterval callback of startTimer()
Tick ==
    /\ timerActive
    /\ IF timerCallsFlush(events)
       THEN flush(events, slot, "timer", "tick", events)
       ELSE /\ UNCHANGED <<events, slot, isProcessing, outstanding, sent, hist, failures>>
            /\ last' = Op("tick", FALSE, "timer", events, <<>>, <<>>)
    /\ onlyAdds' = FALSE
    /\ UNCHANGED <<timerActive, storageOk, senderThrows, delivered, restored, adds, nextId, restarts,
                   other, client>>

\* queue.clear() with the queue's entry holding s
QueueClear(s) ==
    /\ events' = eventsAfterClear(events)
    /\ slot' = slotAfterClear(s)
    /\ last' = Op("clear", FALSE, "none", events, <<>>, <<>>)
    /\ hist' = [hist EXCEPT !.cleared = TRUE, !.failedCleared = (hist.failed # <<>>)]
    /\ onlyAdds' = FALSE
    /\ UNCHANGED <<isProcessing, timerActive, storageOk, senderThrows, outstanding, sent,
                   delivered, restored, adds, nextId, failures, restarts, other>>

\* queue.clear() called by the application; its Storage.clear() goes over
\* every key of localStorage
Clear ==
    /\ QueueClear(slot)
    /\ client' = [client EXCEPT
                    !.userSlot = ClearByPrefix(QueuePrefix, UserKey, @, <<>>, storageOk)]

\* queue.destroy()
Destroy ==
    /\ timerActive' = timerAfterDestroy(timerActive)
    /\ last' = Op("destroy", FALSE, "none", events, <<>>, <<>>)
    /\ hist' = [hist EXCEPT !.destroyed = IF isProcessing THEN "busy" ELSE "idle"]
    /\ onlyAdds' = FALSE
    /\ UNCHANGED <<events, isProcessing, slot, storageOk, senderThrows, outstanding, sent,
                   delivered, restored, adds, nextId, failures, restarts, other, client>>

\* the sequence without its i-th element
RemoveAt(seq, i) == [j \in 1..(Len(seq) - 1) |-> IF j < i THEN seq[j] ELSE seq[j + 1]]

\* the promise of a sender invocation resolves: flush() resumes after the
\* await and runs its finally block
QueueResolve ==
    /\ \E i \in DOMAIN outstanding :
         /\ outstanding' = RemoveAt(outstanding, i)
         /\ delivered' = Append(delivered, outstanding[i].batch)
         /\ last' = [Op("resolve", FALSE, outstanding[i].cause, events, outstanding[i].batch,
                       outstanding[i].atCall) EXCEPT !.promise = settledPromise(FALSE)]
    /\ isProcessing' = processingAfterSettle(isProcessing)
    /\ hist' = [hist EXCEPT !.destroyed = SettledAfterDestroy(@)]
    /\ UNCHANGED <<events, timerActive, slot, storageOk, senderThrows, sent, restored, adds,
                   onlyAdds, nextId, failures, restarts, other>>

\* the environment resolves the promise the sender returned
SenderResolve ==
    /\ QueueResolve
    /\ UNCHANGED client

\* the promise of a sender invocation rejects: flush() resumes in its catch
\* block, then runs its finally block
QueueReject ==
    /\ failures < MaxFailures
    /\ \E i \in DOMAIN outstanding :
         /\ outstanding' = RemoveAt(outstanding, i)
         /\ events' = requeue(outstanding[i].batch, events)
         /\ slot' = persistEvents(slot, requeue(outstanding[i].batch, events))
         /\ last' = [Op("reject", FALSE, outstanding[i].cause, events, outstanding[i].batch,
                       outstanding[i].atCall) EXCEPT !.promise = settledPromise(TRUE)]
         /\ hist' = [hist EXCEPT !.failed = outstanding[i].batch, !.failedCleared = FALSE,
                                 !.destroyed = SettledAfterDestroy(@)]
    /\ isProcessing' = processingAfterSettle(isProcessing)
    /\ failures' = failures + 1
    /\ UNCHANGED <<timerActive, storageOk, senderThrows, sent, delivered, restored, adds,
                   onlyAdds, nextId, restarts, other>>

\* the environment rejects the promise the sender returned
SenderReject ==
    /\ QueueReject
    /\ UNCHANGED client

\* the batches of the outstanding invocations, concatenated
RECURSIVE Flatten(_)
Flatten(batches) ==
    IF batches = <<>> THEN <<>> ELSE Head(batches) \o Flatten(Tail(batches))

InFlight == Flatten([i \in DOMAIN outstanding |-> outstanding[i].batch])

\* the page is reloaded: the old instance and its promises are gone, and
\* new EventQueue(config, onFlush) runs on the same localStorage
QueueRestart ==
    /\ restarts < MaxRestarts
    /\ restarts' = restarts + 1
    /\ events' = loadPersistedEvents(slot, storageOk)
    /\ restored' = events'
    /\ isProcessing' = FALSE
    /\ timerActive' = TRUE
    /\ outstanding' = <<>>
    /\ sent' = <<>>
    /\ delivered' = <<>>
    /\ adds' = 0
    /\ onlyAdds' = TRUE
    /\ hist' = NoHistory
    /\ last' = Op("construct", FALSE, "none", events, InFlight, <<>>)
    /\ other' = NoOther
    /\ UNCHANGED <<slot, storageOk, senderThrows, nextId, failures>>

\* a page reload of an application that uses the queue directly
Restart ==
    /\ QueueRestart
    /\ UNCHANGED client

Next ==
    \/ Add
    \/ Flush
    \/ Tick
    \/ Clear
    \/ Destroy
    \/ SenderResolve
    \/ SenderReject
    \/ Restart

Spec == Init /\ [][Next]_vars

\* the sender given to the constructor starts or stops throwing when called
\* (a function that is not async can throw before it returns its promise)
SenderChanges ==
    /\ senderThrows' = ~senderThrows
    /\ UNCHANGED <<events, isProcessing, timerActive, slot, storageOk, outstanding, sent,
                   delivered, restored, adds, onlyAdds, nextId, failures, restarts, hist, last,
                   other, client>>

\* localStorage starts throwing on access (storage disabled or unavailable,
\* quota exceeded) and keeps failing
StorageFails ==
    /\ storageOk
    /\ storageOk' = FALSE
    /\ UNCHANGED <<events, isProcessing, timerActive, slot, senderThrows, outstanding, sent,
                   delivered, restored, adds, onlyAdds, nextId, failures, restarts, hist, last,
                   other, client>>

NextStorage ==
    \/ Next
    \/ StorageFails

\* the queue on a localStorage that may fail
SpecStorage == Init /\ [][NextStorage]_vars

\* the window fires 'beforeunload': the listener registered by
\* setupBeforeUnload() runs
Unload ==
    /\ last' = [Op("unload", FALSE, "none", events, <<>>, <<>>) EXCEPT
                  !.beacon = beaconCalls(events)]
    /\ onlyAdds' = FALSE
    /\ UNCHANGED <<events, isProcessing, timerActive, slot, storageOk, senderThrows, outstanding,
                   sent, delivered, restored, adds, nextId, failures, restarts, hist, other,
                   client>>

NextUnload ==
    \/ Next
    \/ Unload

\* the queue in a window that fires 'beforeunload'
SpecUnload == Init /\ [][NextUnload]_vars

\* new EventQueue(config, onFlush) a second time on the same page: both
\* instances create their Storage with the prefix 'analytics_queue_' and use
\* the key 'events'
Construct2 ==
    /\ ~other.live
    /\ other' = [live |-> TRUE, events |-> loadPersistedEvents(slot, storageOk),
                 isProcessing |-> FALSE]
    /\ last' = Op("construct2", FALSE, "none", events, <<>>, <<>>)
    /\ UNCHANGED <<events, isProcessing, timerActive, slot, storageOk, senderThrows, outstanding,
                   sent, delivered, restored, adds, onlyAdds, nextId, failures, restarts, hist,
                   client>>

\* flush() of the second instance, in state o with slot content s, up to the
\* suspension at the await
flush2(o, s, op) ==
    IF flushReturnsEarly(o.events, o.isProcessing)
    THEN /\ other' = o
         /\ slot' = s
         /\ last' = Op(op, FALSE, "none", events, <<>>, o.events)
    ELSE /\ other' = [o EXCEPT !.events = eventsAfterSnapshot(o.events),
                               !.isProcessing = processingAfterStart(o.isProcessing)]
         /\ slot' = persistEvents(s, eventsAfterSnapshot(o.events))
         /\ last' = Op(op, TRUE, "none", events, eventsToSend(o.events), o.events)

\* add(event) on the second instance
Add2 ==
    /\ other.live
    /\ nextId <= MaxAdds
    /\ LET o == [other EXCEPT !.events = push(@, NewEvent(nextId))]
           s == persistEvents(slot, o.events)
       IN  IF thresholdReached(o.events)
           THEN flush2(o, s, "add2")
           ELSE /\ other' = o
                /\ slot' = s
                /\ last' = Op("add2", FALSE, "none", events, <<>>, <<>>)
    /\ nextId' = nextId + 1
    /\ UNCHANGED <<events, isProcessing, timerActive, storageOk, senderThrows, outstanding,
                   sent, delivered, restored, adds, onlyAdds, failures, restarts, hist, client>>

\* flush() called on the second instance
Flush2 ==
    /\ other.live
    /\ flush2(other, slot, "flush2")
    /\ UNCHANGED <<events, isProcessing, timerActive, storageOk, senderThrows, outstanding,
                   sent, delivered, restored, adds, onlyAdds, nextId, failures, restarts, hist,
                   client>>

\* clear() called on the second instance
Clear2 ==
    /\ other.live
    /\ other' = [other EXCEPT !.events = eventsAfterClear(@)]
    /\ slot' = slotAfterClear(slot)
    /\ last' = Op("clear2", FALSE, "none", events, <<>>, <<>>)
    /\ UNCHANGED <<events, isProcessing, timerActive, storageOk, senderThrows, outstanding,
                   sent, delivered, restored, adds, onlyAdds, nextId, failures, restarts, hist,
                   client>>

\* the sender invocation of the second instance resolves
SenderResolve2 ==
    /\ other.live
    /\ other.isProcessing
    /\ other' = [other EXCEPT !.isProcessing = processingAfterSettle(@)]
    /\ last' = Op("resolve2", FALSE, "none", events, <<>>, <<>>)
    /\ UNCHANGED <<events, isProcessing, timerActive, slot, storageOk, senderThrows, outstanding,
                   sent, delivered, restored, adds, onlyAdds, nextId, failures, restarts, hist,
                   client>>

NextTwo ==
    \/ Next
    \/ Construct2
    \/ Add2
    \/ Flush2
    \/ Clear2
    \/ SenderResolve2

\* two queues constructed on one page
SpecTwo == Init /\ [][NextTwo]_vars

\* one instance whose timer keeps running: no destroy(), no clear(), no page
\* reload
NextLive ==
    \/ Add
    \/ Flush
    \/ Tick
    \/ SenderResolve
    \/ SenderReject

\* setInterval keeps firing the callback, and every promise returned by the
\* sender is settled; the sender fails at most MaxFailures times
SpecLive ==
    /\ Init
    /\ [][NextLive]_vars
    /\ WF_vars(Tick)
    /\ WF_vars(SenderResolve \/ SenderReject)

\* client.track(name): the event is built, validated and passed to queue.add
Track ==
    \E name \in EventNames :
      IF validateEvent(name)
      THEN /\ QueueAdd(TrackEvent(nextId, client.user))
           /\ client' = [client EXCEPT
                           !.call = Call("track", name, <<>>, NoResponse, FALSE, AbsentSlot)]
      ELSE /\ client' = [client EXCEPT
                           !.call = Call("track", name, <<>>, NoResponse, TRUE, AbsentSlot)]
           /\ UNCHANGED <<events, isProcessing, timerActive, slot, storageOk, senderThrows,
                          outstanding, sent, delivered, restored, adds, onlyAdds, nextId,
                          failures, restarts, hist, last, other>>

\* client.identify(u): validate, set and persist the user, then
\* track('user_identified', ...)
Identify ==
    \E u \in Users :
      IF validateUser(u)
      THEN /\ QueueAdd(TrackEvent(nextId, <<u>>))
           /\ client' = [client EXCEPT
                           !.user = <<u>>,
                           !.userSlot = persistUser(@, u, storageOk),
                           !.call = Call("identify", <<>>, <<u>>, NoResponse, FALSE, AbsentSlot)]
      ELSE /\ client' = [client EXCEPT
                           !.call = Call("identify", <<>>, <<u>>, NoResponse, TRUE, AbsentSlot)]
           /\ UNCHANGED <<events, isProcessing, timerActive, slot, storageOk, senderThrows,
                          outstanding, sent, delivered, restored, adds, onlyAdds, nextId,
                          failures, restarts, hist, last, other>>

\* client.reset(): this.user = undefined, this.storage.clear(), this.queue.clear()
Reset ==
    LET mid == ClearByPrefix(ClientPrefix, QueueKey, slot, AbsentSlot, storageOk)
        us == ClearByPrefix(ClientPrefix, UserKey, client.userSlot, <<>>, storageOk)
    IN  /\ QueueClear(mid)
        /\ client' = [client EXCEPT
                        !.user = <<>>,
                        !.userSlot = ClearByPrefix(QueuePrefix, UserKey, us, <<>>, storageOk),
                        !.call = Call("reset", <<>>, <<>>, NoResponse, FALSE, mid),
                        !.resetAt = nextId]

\* the request of sendBatch gets the response r (or none): the promise of
\* the sender settles as sendBatch decides
Response ==
    \E r \in Responses :
      /\ IF sendBatch(r) = "resolved" THEN QueueResolve ELSE QueueReject
      /\ client' = [client EXCEPT
                      !.call = Call("response", <<>>, <<>>, r, FALSE, AbsentSlot)]

\* the page is reloaded and new AnalyticsClient(config) runs (autoTrack off):
\* a new queue, then loadUser()
Reload ==
    /\ QueueRestart
    /\ client' = [user |-> loadUser(client.userSlot, storageOk),
                  userSlot |-> client.userSlot,
                  call |-> Call("construct", <<>>, <<>>, NoResponse, FALSE, AbsentSlot),
                  resetAt |-> client.resetAt]

\* one page of an application that uses the queue through an AnalyticsClient:
\* track, identify, flush and reset, with the responses of the endpoint (the
\* timer callback runs the same flush() as client.flush())
NextClient ==
    \/ Track
    \/ Identify
    \/ Flush
    \/ Reset
    \/ Response

SpecClient == Init /\ [][NextClient]_vars

\* the user record over page reloads: identify, reset and new clients, with
\* flush and the responses of the endpoint
NextReload ==
    \/ Identify
    \/ Reset
    \/ Flush
    \/ Response
    \/ Reload

SpecReload == Init /\ [][NextReload]_vars

NextThrow ==
    \/ Next
    \/ SenderChanges

\* the queue with a sender that may also throw synchronously
SpecThrow == Init /\ [][NextThrow]_vars

(* ------------------------- helpers of the claims ------------------------ *)
\* the step is a call of add()
AddStep == nextId' = nextId + 1

\* the step invokes the sender once
OneInvocation == Len(sent') = Len(sent) + 1

\* the step invokes no sender
NoInvocation == sent' = sent /\ outstanding' = outstanding

\* the events of a sequence, as a set
Range(seq) == {seq[i] : i \in DOMAIN seq}

\* ids grow along the sequence: add order, no event twice
Increasing(seq) == \A i, j \in DOMAIN seq : i < j => seq[i].id < seq[j].id

\* a is a prefix of b
IsPrefix(a, b) == Len(a) <= Len(b) /\ SubSeq(b, 1, Len(a)) = a

(* ------------------------------- claims -------------------------------- *)

\* C1: in every reachable state at most one sender invocation is outstanding
\* (started and not yet settled), and the processing flag is set exactly
\* while one is.
C1_AtMostOneInFlight ==
    /\ Len(outstanding) <= 1
    /\ isProcessing <=> Len(outstanding) = 1

\* C1 witness: flush() was attempted with events pending while a delivery was
\* in flight, and the delivery is still the only one
C1_Witness ==
    /\ last.op \in {"flush", "tick", "add"}
    /\ ~last.started
    /\ Len(last.atCall) > 0
    /\ Len(outstanding) = 1

\* C2: events are delivered in add order.  The delivered batches, and every
\* batch handed to the sender, are in add order; the batch in flight holds
\* only events added before every pending one; an event handed to the sender
\* after a later-added one was already handed over before (a retry); and a
\* failed batch is put back at the head of the pending sequence in its
\* original order, ahead of the events added while it was in flight.
C2_AddOrder ==
    /\ Increasing(Flatten(delivered))
    /\ Increasing(InFlight \o events)
    /\ \A k \in DOMAIN sent : Increasing(sent[k])
    /\ \A k, l \in DOMAIN sent :
         \A x \in Range(sent[k]), y \in Range(sent[l]) :
           (k < l /\ y.id < x.id) => \E m \in 1..k : y \in Range(sent[m])
    /\ last.op = "reject" => events = last.batch \o last.pre

\* C2 witness: a batch failed while a later event was pending, and it is back
\* at the head
C2_Witness ==
    /\ last.op = "reject"
    /\ Len(last.pre) > 0
    /\ Len(last.batch) > 0
    /\ events = last.batch \o last.pre

\* C3 as stated: every add() that brings the pending count to batchSize
\* invokes the sender once with the pending events in insertion order and
\* leaves size() 0.
C3_Original ==
    [][(AddStep /\ Len(events) + 1 = batchSize) =>
         /\ OneInvocation
         /\ sent' = Append(sent, Append(events, NewEvent(nextId)))
         /\ events' = <<>>]_vars

\* C3 amended: an add() made while no delivery is in flight that brings the
\* pending count to batchSize or more invokes the sender exactly once, with
\* the whole pending sequence in insertion order (the added event last), and
\* size() is 0 when add() returns.
C3_ThresholdFlush ==
    [][(AddStep /\ ~isProcessing /\ Len(events) + 1 >= batchSize) =>
         /\ OneInvocation
         /\ sent' = Append(sent, Append(events, NewEvent(nextId)))
         /\ Len(outstanding') = 1
         /\ events' = <<>>]_vars

\* C3 witness: add() reached batchSize, handed exactly batchSize events to the
\* sender and left the pending sequence empty
C3_Witness ==
    /\ last.op = "add"
    /\ last.started
    /\ Len(last.batch) = batchSize
    /\ last.batch = sent[Len(sent)]
    /\ events = <<>>

\* C4 as stated: after one or more add() calls and nothing else, fewer than
\* batchSize of them, size() is the number of adds and the sender was not
\* invoked.
C4_Original ==
    (onlyAdds /\ adds >= 1 /\ adds < batchSize) => (Len(events) = adds /\ sent = <<>>)

\* C4 amended: after add() calls only, as long as the events restored at
\* construction plus the adds stay below batchSize, size() is the number of
\* restored events plus the number of adds (the restored events first) and
\* the sender was not invoked.
C4_BelowThreshold ==
    (onlyAdds /\ Len(restored) + adds < batchSize) =>
        /\ Len(events) = Len(restored) + adds
        /\ IsPrefix(restored, events)
        /\ sent = <<>>
        /\ ~isProcessing

\* C4 witness: one add() below the threshold is pending and nothing was sent
C4_Witness ==
    /\ onlyAdds
    /\ adds >= 1
    /\ Len(restored) + adds < batchSize
    /\ Len(events) = adds
    /\ sent = <<>>

\* C5 as stated: once a rejected attempt has settled, size() is the size of
\* the failed batch and the processing flag is false.
C5_Original ==
    last.op = "reject" => (Len(events) = Len(last.batch) /\ ~isProcessing)

\* C5 amended: once a rejected attempt has settled, the pending sequence is
\* the failed batch followed by the events that were pending at the
\* settlement (size() = batch size + their number), the processing flag is
\* false, and a flush that follows hands the sender a batch that begins with
\* the events of the failed batch, unchanged and in their original order.
C5_RequeueOnFailure ==
    /\ [](last.op = "reject" =>
            /\ events = last.batch \o last.pre
            /\ Len(events) = Len(last.batch) + Len(last.pre)
            /\ ~isProcessing)
    /\ [][(last.op = "reject" /\ last'.op \in {"flush", "tick"}) => last'.started]_vars
    /\ [][(last.op = "reject" /\ last'.started) =>
            /\ OneInvocation
            /\ IsPrefix(last.batch, sent'[Len(sent')])]_vars

\* C5 witness: the flush after a failed attempt handed the sender the failed
\* batch again, followed by an event added meanwhile
C5_Witness ==
    /\ Len(sent) = 2
    /\ failures = 1
    /\ last.started
    /\ IsPrefix(sent[1], sent[2])
    /\ Len(sent[2]) > Len(sent[1])

\* C6: flush() called while the pending sequence is empty does not invoke the
\* sender and changes neither the pending sequence, the processing flag nor
\* the persisted slot.
C6_FlushEmptyIsNoop ==
    [][(last'.op = "flush" /\ events = <<>>) =>
         /\ NoInvocation
         /\ ~last'.started
         /\ UNCHANGED <<events, isProcessing, slot>>]_vars

\* C6 witness: flush() returned on an idle, empty queue that had delivered a
\* batch before
C6_Witness ==
    /\ last.op = "flush"
    /\ last.pre = <<>>
    /\ ~last.started
    /\ ~isProcessing
    /\ Len(delivered) > 0
    /\ events = <<>>

\* C7: a flush() made while a delivery is in flight, by the application, by
\* the timer or by add() at the threshold, invokes no sender and leaves the
\* pending sequence as it is (add() has appended its event); the delivery in
\* flight stays the only one, and it carries what was pending when its own
\* flush() was called.
C7_FlushInFlightIsNoop ==
    /\ [][(isProcessing /\ last'.op \in {"flush", "tick"}) =>
            /\ NoInvocation
            /\ ~last'.started
            /\ UNCHANGED <<events, isProcessing, slot>>]_vars
    /\ [][(isProcessing /\ AddStep) =>
            /\ NoInvocation
            /\ ~last'.started
            /\ isProcessing'
            /\ events' = Append(events, NewEvent(nextId))]_vars
    /\ [](isProcessing =>
            /\ Len(outstanding) = 1
            /\ outstanding[1].batch = outstanding[1].atCall
            /\ outstanding[1].batch = sent[Len(sent)])

\* C7 witness: an explicit flush() overlapped an explicit flush() in flight,
\* with events pending at the second call, and one sender call was made
C7_Witness ==
    /\ last.op = "flush"
    /\ ~last.started
    /\ Len(last.pre) > 0
    /\ events = last.pre
    /\ Len(outstanding) = 1
    /\ outstanding[1].cause = "explicit"
    /\ Len(sent) = 1

\* the promise of an explicit flush() resolved in the last step, and the
\* sender did not fail: the call returned early, or its sender resolved
ExplicitFlushResolved ==
    \/ last.op = "flush" /\ ~last.started
    \/ last.op = "resolve" /\ last.cause = "explicit"

\* every event of the sequence has been handed to the sender
HandedToSender(evs) == \A e \in Range(evs) : \E k \in DOMAIN sent : e \in Range(sent[k])

\* C8 as stated: when an explicit flush() resolves and the sender did not
\* fail, every event that was pending at the call has been handed to the
\* sender and size() is 0.
C8_Original ==
    ExplicitFlushResolved => (HandedToSender(last.atCall) /\ events = <<>>)

\* the explicit flush() that resolved in the last step was called while no
\* delivery was in flight
CalledWhileIdle ==
    \/ last.op = "flush" /\ ~last.started /\ ~isProcessing
    \/ last.op = "resolve" /\ last.cause = "explicit"

\* C8 amended: when an explicit flush() that was called while no delivery was
\* in flight resolves and the sender did not fail, every event that was
\* pending at the call has been handed to the sender, and the pending
\* sequence holds only events added after the call (size() is 0 when no
\* add() was made meanwhile).
C8_FlushDelivers ==
    CalledWhileIdle =>
        /\ HandedToSender(last.atCall)
        /\ \A e \in Range(events) : \A c \in Range(last.atCall) : e.id > c.id
        /\ Range(events) \cap Range(last.atCall) = {}
        /\ (last.op = "flush" => events = <<>>)
        /\ (last.op = "resolve" => events = last.pre)

\* C8 witness: an explicit flush() of two pending events resolved with a
\* resolved sender, and nothing was added meanwhile
C8_Witness ==
    /\ last.op = "resolve"
    /\ last.cause = "explicit"
    /\ Len(last.atCall) = 2
    /\ last.atCall = delivered[Len(delivered)]
    /\ events = <<>>

\* C9: clear() empties the pending sequence and erases the persisted entry
\* without invoking the sender: right after it size() is 0, and a queue
\* constructed on the same storage then starts with size() 0.
C9_ClearErases ==
    /\ [][last'.op = "clear" => NoInvocation /\ UNCHANGED isProcessing]_vars
    /\ [](last.op = "clear" =>
            /\ events = <<>>
            /\ slot = AbsentSlot
            /\ loadPersistedEvents(slot, storageOk) = <<>>)
    /\ [][(last.op = "clear" /\ last'.op = "construct") => events' = <<>>]_vars

\* C9 witness: a queue was constructed right after a clear() that had
\* discarded pending, persisted events
C9_Witness ==
    /\ last.op = "construct"
    /\ restarts = 1
    /\ nextId > 1
    /\ last.pre = <<>>
    /\ last.batch = <<>>
    /\ slot = AbsentSlot
    /\ events = <<>>

\* the last step constructed a queue on the storage a previous page left
Reconstructed == last.op = "construct" /\ restarts >= 1

\* C10 as stated: a constructed queue adopts the persisted sequence as it is,
\* so every event that was added and not yet delivered when the previous page
\* ended (pending or in flight) is recovered, as its JSON image.
C10_Original ==
    Reconstructed =>
        /\ slot.kind = "array" => events = slot.val
        /\ \A e \in Range(last.pre \o last.batch) : JSONEvent(e) \in Range(events)

\* C10 amended: a constructed queue adopts the persisted sequence as it is, in
\* the same order, so the events that were in the pending sequence when the
\* previous page ended are recovered as their JSON images, in order; the
\* events of a batch that was in flight then are not.
C10_RestoresPending ==
    Reconstructed =>
        /\ slot.kind = "array" => events = slot.val
        /\ slot.kind # "array" => events = <<>>
        /\ events = JSONRoundTrip(last.pre)
        /\ \A e \in Range(last.batch) : JSONEvent(e) \notin Range(events)

\* C10 witness: two pending events, one of them with a property JSON drops,
\* were recovered in order while a batch in flight was not
C10_Witness ==
    /\ Reconstructed
    /\ Len(events) = 2
    /\ events = JSONRoundTrip(last.pre)
    /\ events # last.pre
    /\ Len(last.batch) > 0

\* the number of places of the sequence that hold the event with this id
Count(seq, id) == Cardinality({i \in DOMAIN seq : seq[i].id = id})

\* the ids of the events passed to add() on this instance
AddedIds == (nextId - adds)..(nextId - 1)

\* C11: as long as clear() is not called on the instance, every event passed
\* to add() is in exactly one place: the pending sequence, the batch of the
\* delivery in flight, or a batch whose sender invocation resolved; it is
\* there once and unchanged.
C11_AtLeastOnceBookkeeping ==
    ~hist.cleared =>
        \A id \in AddedIds :
            /\ Count(events, id) + Count(InFlight, id) + Count(Flatten(delivered), id) = 1
            /\ NewEvent(id) \in Range(events \o InFlight \o Flatten(delivered))

\* C11 witness: without clear(), one added event is delivered, one is in
\* flight and one is pending after a failed delivery
C11_Witness ==
    /\ ~hist.cleared
    /\ adds = 3
    /\ failures = 1
    /\ delivered # <<>>
    /\ outstanding # <<>>
    /\ events # <<>>

\* C12 as stated: the first sender invocation that starts after a failed
\* delivery has settled receives a batch that begins with the failed batch.
C12_Original ==
    [][(OneInvocation /\ hist.failed # <<>>) => IsPrefix(hist.failed, sent'[Len(sent')])]_vars

\* C12 amended: unless clear() is called in between, the first sender
\* invocation that starts after a failed delivery has settled receives a
\* batch that begins with all events of the failed batch, in their original
\* order.
C12_RetryOnNextFlush ==
    [][(OneInvocation /\ hist.failed # <<>> /\ ~hist.failedCleared) =>
         /\ IsPrefix(hist.failed, sent'[Len(sent')])
         /\ sent'[Len(sent')] = events \/ sent'[Len(sent')] = Append(events, NewEvent(nextId))]_vars

\* C12 witness: a retry was handed to the sender, after other operations
\* followed the failure: the batch begins with the failed batch and holds a
\* later event
C12_Witness ==
    /\ failures = 1
    /\ Len(sent) = 2
    /\ last.op = "tick"
    /\ last.started
    /\ IsPrefix(sent[1], sent[2])
    /\ Len(sent[2]) > Len(sent[1])
    /\ ~hist.cleared

\* C13: the promise returned by flush() is never rejected, whether the sender
\* resolves, rejects or throws when called: a flush() that returns early or
\* whose sender has settled is resolved, one whose sender is pending is
\* pending; so add() and the timer callback, which do not await it, leave no
\* rejected promise behind.  A sender that throws is handled before flush()
\* returns: the batch is back in the pending sequence and the flag is clear.
C13_FlushNeverRejects ==
    /\ last.promise # "rejected"
    /\ last.op \in {"resolve", "reject"} => last.promise = "resolved"
    /\ (last.op \in {"add", "flush", "tick"} /\ last.started /\ Len(outstanding) = 0) =>
          /\ last.promise = "resolved"
          /\ ~isProcessing
          /\ events = last.batch
    /\ (last.op \in {"add", "flush", "tick"} /\ last.started /\ Len(outstanding) = 1) =>
          last.promise = "pending"
    /\ (last.op \in {"flush", "tick"} /\ ~last.started /\ last.atCall # <<>>) =>
          last.promise = "resolved"

\* C13 witness: the sender threw inside a flush() that add() triggered at the
\* threshold; add() returned with the promise resolved and the batch pending
C13_Witness ==
    /\ last.op = "add"
    /\ last.started
    /\ senderThrows
    /\ last.promise = "resolved"
    /\ events = last.batch
    /\ ~isProcessing

\* C14 as stated: when the sender rejects during an explicitly called
\* flush(), the promise returned to that caller is rejected.
C14_Original ==
    (last.op = "reject" /\ last.cause = "explicit") => last.promise = "rejected"

\* C14 amended: a delivery failure is not surfaced as a failed asynchronous
\* result to any caller: when the sender rejects during an explicitly called
\* flush(), the promise returned to that caller resolves like that of a
\* timer- or threshold-triggered flush, and the failure shows only in the
\* batch being pending again.
C14_FailureNotSurfaced ==
    last.op = "reject" =>
        /\ last.promise = "resolved"
        /\ IsPrefix(last.batch, events)

\* C14 witness: the sender rejected during an explicit flush() and the
\* caller's promise resolved
C14_Witness ==
    /\ last.op = "reject"
    /\ last.cause = "explicit"
    /\ last.promise = "resolved"
    /\ events = last.batch

\* C15: with one queue instance and working storage the persisted slot holds
\* the pending sequence after every step (an absent or unusable entry
\* counting as the empty sequence); every write of add() and flush() (start
\* and failure settlement) overwrites the entry with the full pending
\* sequence, clear() removes it, and a success settlement finds it up to date.
C15_SlotMirrorsPending ==
    /\ loadPersistedEvents(slot, TRUE) = JSONRoundTrip(events)
    /\ (last.op \in {"add", "reject"} \/ last.started) => slot = ArraySlot(events)
    /\ last.op = "clear" => slot = AbsentSlot
    /\ last.op = "resolve" => slot.val = JSONRoundTrip(last.pre)

\* C15 witness: a failed batch was written back in front of an event added
\* during the flight, and the slot holds all three events
C15_Witness ==
    /\ last.op = "reject"
    /\ Len(last.pre) > 0
    /\ Len(events) = 3
    /\ slot = ArraySlot(events)
    /\ slot.val # events

\* the step is made by a handler of the queue (not by the environment
\* changing the storage or the sender)
QueueStep(ops) == last'.op \in ops /\ last' # last /\ storageOk' = storageOk

\* C16: a failing storage write changes nothing but the persisted slot, which
\* keeps its content.  With storage failing, add() appends and flushes at the
\* threshold, flush() and the timer hand the whole pending sequence to the
\* sender, and a rejected batch is put back at the head with the flag
\* cleared, all as with working storage.
C16_StorageFailureTolerated ==
    /\ [][(~storageOk /\ QueueStep({"add", "flush", "tick", "reject", "resolve"})) =>
            slot' = slot]_vars
    /\ [][(~storageOk /\ QueueStep({"add"})) =>
            IF ~isProcessing /\ Len(events) + 1 >= batchSize
            THEN /\ events' = <<>>
                 /\ sent' = Append(sent, Append(events, NewEvent(nextId)))
                 /\ isProcessing'
            ELSE /\ events' = Append(events, NewEvent(nextId))
                 /\ sent' = sent
                 /\ isProcessing' = isProcessing]_vars
    /\ [][(~storageOk /\ QueueStep({"flush", "tick"})) =>
            IF ~isProcessing /\ events # <<>>
            THEN /\ events' = <<>>
                 /\ sent' = Append(sent, events)
                 /\ isProcessing'
            ELSE UNCHANGED <<events, sent, isProcessing>>]_vars
    /\ [][(~storageOk /\ QueueStep({"reject"})) =>
            /\ events' = last'.batch \o events
            /\ ~isProcessing'
            /\ last'.promise = "resolved"]_vars

\* C16 witness: with storage failing, a batch was sent at the threshold and
\* put back after the rejection, while the slot kept an older content
C16_Witness ==
    /\ ~storageOk
    /\ last.op = "reject"
    /\ last.cause = "add"
    /\ events = last.batch
    /\ Len(events) = batchSize
    /\ loadPersistedEvents(slot, TRUE) # JSONRoundTrip(events)

\* C17: once destroy() has been called the timer callback never runs again;
\* every sender invocation started afterwards comes from an add() or from
\* an explicit flush(), which behave as before: add() appends and flushes
\* at the threshold when idle, flush() sends the whole pending sequence
\* when idle and non-empty.
C17_NoTimerFlushAfterDestroy ==
    /\ [](hist.destroyed # "no" => ~timerActive)
    /\ [][hist.destroyed # "no" =>
            /\ last'.op # "tick"
            /\ Len(sent') > Len(sent) => last'.cause \in {"add", "explicit"}]_vars
    /\ [][(hist.destroyed # "no" /\ QueueStep({"add"})) =>
            IF ~isProcessing /\ Len(events) + 1 >= batchSize
            THEN /\ events' = <<>>
                 /\ sent' = Append(sent, Append(events, NewEvent(nextId)))
            ELSE /\ events' = Append(events, NewEvent(nextId))
                 /\ sent' = sent]_vars
    /\ [][(hist.destroyed # "no" /\ QueueStep({"flush"})) =>
            IF ~isProcessing /\ events # <<>>
            THEN /\ events' = <<>>
                 /\ sent' = Append(sent, events)
            ELSE UNCHANGED <<events, sent>>]_vars

\* C17 witness: after destroy() an explicit flush() handed a single pending
\* event, added after the destroy(), to the sender
C17_Witness ==
    /\ hist.destroyed = "idle"
    /\ sent = <<last.batch>>
    /\ last.op = "flush"
    /\ last.started
    /\ Len(last.batch) = 1
    /\ adds = 1
    /\ restored = <<>>

\* C18: destroy() starts no sender invocation and leaves the pending
\* sequence, the processing flag and the persisted slot as they are; the
\* delivery it found in flight settles as any other: on success the flag is
\* cleared and nothing else changes, on failure the batch is put back at the
\* head of the pending sequence, which is written to the slot, and the flag
\* is cleared.
C18_DestroyOnlyStopsTimer ==
    /\ [][QueueStep({"destroy"}) =>
            UNCHANGED <<events, isProcessing, slot, outstanding, sent, delivered>>]_vars
    /\ [][(hist.destroyed = "busy" /\ QueueStep({"resolve"})) =>
            /\ ~isProcessing'
            /\ outstanding' = <<>>
            /\ delivered' = Append(delivered, last'.batch)
            /\ UNCHANGED <<events, slot>>]_vars
    /\ [][(hist.destroyed = "busy" /\ QueueStep({"reject"})) =>
            /\ ~isProcessing'
            /\ outstanding' = <<>>
            /\ events' = last'.batch \o events
            /\ slot' = ArraySlot(events')
            /\ delivered' = delivered]_vars

\* C18 witness: the delivery that was in flight at destroy() failed, and its
\* batch is back in front of an event added in between, in memory and in
\* the slot
C18_Witness ==
    /\ hist.destroyed = "settled"
    /\ last.op = "reject"
    /\ ~isProcessing
    /\ Len(events) > Len(last.batch)
    /\ IsPrefix(last.batch, events)
    /\ slot = ArraySlot(events)

\* C19: the beforeunload listener calls sendBeacon exactly once, with all
\* pending events as JSON text, when events are pending, and not at all when
\* none are; it changes neither the pending sequence, the processing flag nor
\* the persisted slot, and it does not invoke the sender.
C19_UnloadBeacon ==
    /\ [](last.op # "unload" => last.beacon = <<>>)
    /\ [][QueueStep({"unload"}) =>
            /\ IF events # <<>>
               THEN /\ Len(last'.beacon) = 1
                    /\ last'.beacon[1].events = JSONRoundTrip(events)
               ELSE last'.beacon = <<>>
            /\ UNCHANGED <<events, isProcessing, slot, outstanding, sent, delivered>>]_vars

\* C19 witness: the unload signal came with two events pending behind a
\* delivery in flight; both went to the beacon and stayed pending
C19_Witness ==
    /\ last.op = "unload"
    /\ isProcessing
    /\ Len(events) = 2
    /\ Len(last.beacon) = 1
    /\ Len(last.beacon[1].events) = 2
    /\ last.beacon[1].events # events

\* C19 witness, second case: the unload signal came with nothing pending
C19_WitnessEmpty ==
    /\ last.op = "unload"
    /\ events = <<>>
    /\ last.beacon = <<>>
    /\ adds > 0

\* a step made by a handler of the second instance
OtherStep == last'.op \in {"add2", "flush2", "clear2", "resolve2"} /\ last' # last

\* C20 as stated: two queues on one page do not collide.  A second instance
\* constructed on a page that started with no usable entry loads nothing
\* (whatever the entry holds was written by the live first instance), its
\* add(), flush() and clear() leave the entry holding the first instance's
\* pending sequence, and the first instance's operations do not change what
\* the second one would load back as its own.  The code gives both
\* instances the same key, so this is violated.
C20_Original ==
    /\ []((last.op = "construct2" /\ restarts = 0) => other.events = <<>>)
    /\ [][(OtherStep /\ restarts = 0) =>
            loadPersistedEvents(slot', TRUE) = loadPersistedEvents(slot, TRUE)]_vars

\* the collision: the second instance has adopted the event the first one
\* holds, and either of them will hand it to its sender
C20_Collision ==
    /\ other.live
    /\ restarts = 0
    /\ events # <<>>
    /\ other.events = JSONRoundTrip(events)

\* C26: a timer tick that finds events pending and no delivery in flight
\* invokes the sender once, with the whole pending sequence; a tick that
\* finds the pending sequence empty or a delivery in flight changes nothing.
C26_TimerTick ==
    [][QueueStep({"tick"}) =>
         IF events # <<>> /\ ~isProcessing
         THEN /\ sent' = Append(sent, events)
              /\ Len(outstanding') = Len(outstanding) + 1
              /\ outstanding'[Len(outstanding')].batch = events
              /\ last'.cause = "timer"
         ELSE UNCHANGED <<events, isProcessing, slot, sent, outstanding>>]_vars

\* C26 witness: a tick sent a single pending event, below the threshold
C26_Witness ==
    /\ last.op = "tick"
    /\ last.started
    /\ Len(last.batch) = 1
    /\ batchSize > 1
    /\ sent # <<>>
    /\ sent[Len(sent)] = last.batch

\* C27: add() during a delivery appends the event at the tail, writes the
\* whole pending sequence to the slot and starts no sender invocation, also
\* when the pending count reaches batchSize; the batch in flight stays as it
\* is.
C27_AddWhileInFlight ==
    [][(isProcessing /\ QueueStep({"add"})) =>
         /\ events' = Append(events, NewEvent(nextId))
         /\ slot' = ArraySlot(events')
         /\ ~last'.started
         /\ isProcessing'
         /\ UNCHANGED <<sent, outstanding, delivered>>]_vars

\* C27 witness: an add() during a delivery brought the pending count to
\* batchSize and nothing was sent
C27_Witness ==
    /\ last.op = "add"
    /\ ~last.started
    /\ isProcessing
    /\ outstanding # <<>>
    /\ Len(events) >= batchSize
    /\ Len(last.pre) < batchSize

\* C28: only a settlement of the sender invocation clears the processing
\* flag of an instance; as long as the invocation is not settled, add(),
\* flush(), timer ticks, clear() and destroy() leave the flag set and start
\* no sender invocation.
C28_FlushingUntilSettled ==
    /\ [][(isProcessing /\ ~isProcessing') =>
            last'.op \in {"resolve", "reject", "construct"}]_vars
    /\ [][(isProcessing /\ QueueStep({"add", "flush", "tick", "clear", "destroy"})) =>
            /\ isProcessing'
            /\ UNCHANGED <<sent, outstanding>>]_vars

\* C28 witness: the sender invocation is still not settled after adds up to
\* the threshold, a clear() and a destroy()
C28_Witness ==
    /\ isProcessing
    /\ Len(sent) = 1
    /\ Len(outstanding) = 1
    /\ hist.cleared
    /\ hist.destroyed = "busy"
    /\ last.op = "add"
    /\ adds > Len(outstanding[1].batch)

\* C30: the batch of every sender invocation is the whole pending sequence
\* the flush found (for add(), with the added event), and the pending
\* sequence is empty when the invocation starts; nothing cuts the batch to
\* batchSize.
C30_WholePendingSequence ==
    /\ [](last.started =>
            /\ last.batch = last.atCall
            /\ events = <<>>
            /\ sent # <<>>
            /\ sent[Len(sent)] = last.batch)
    /\ [][(QueueStep({"add", "flush", "tick"}) /\ last'.started) =>
            last'.batch = IF last'.op = "add" THEN Append(events, NewEvent(nextId))
                          ELSE events]_vars

\* C30 witness: a batch larger than batchSize was handed to the sender
C30_Witness ==
    /\ last.started
    /\ Len(last.batch) > batchSize
    /\ sent[Len(sent)] = last.batch

\* the ids of the events in batches whose sender invocation resolved
DeliveredIds == {e.id : e \in Range(Flatten(delivered))}

\* C29: with the timer running, no clear(), every sender invocation settling
\* and the sender failing only finitely often, every event passed to add()
\* is eventually in a batch whose sender invocation resolved; after a failed
\* delivery the timer is still active and the processing flag is clear.
C29_EventuallyDelivered ==
    /\ \A n \in 1..MaxAdds : (nextId > n) ~> (n \in DeliveredIds)
    /\ [](last.op = "reject" => timerActive /\ ~isProcessing)

\* C29 witness: every event has been delivered although a delivery failed
C29_Witness ==
    /\ nextId = MaxAdds + 1
    /\ DeliveredIds = 1..MaxAdds
    /\ failures = MaxFailures
    /\ Len(sent) > Len(delivered)
    /\ timerActive
    /\ ~isProcessing

\* the step is client.reset()
ResetStep ==
    /\ client'.call.op = "reset"
    /\ last'.op = "clear"
    /\ last' # last \/ client' # client

\* C21 as stated: the two Storage objects do not reach each other's keys.
\* The queue's clear-by-prefix leaves the entry of the user record as it is,
\* and the persisted pending sequence is, after this.storage.clear() of
\* reset(), what it was before reset().  The second part is violated:
\* 'analytics_queue_events' starts with the facade's prefix 'analytics_'.
C21_Original ==
    /\ [](\A us \in {<<>>, <<JSONUser(CHOOSE u \in Users : validateUser(u))>>} :
            ClearByPrefix(QueuePrefix, UserKey, us, <<>>, storageOk) = us)
    /\ [][ResetStep =>
            loadPersistedEvents(client'.call.mid, TRUE) = loadPersistedEvents(slot, TRUE)]_vars

\* the step is the settlement of a sender invocation by a response
ResponseStep ==
    /\ client'.call.op = "response"
    /\ last'.op \in {"resolve", "reject"}
    /\ last' # last

\* C22: the promise of sendBatch resolves exactly when fetch returned a
\* response, response.ok holds and the body parses with success true, and
\* rejects otherwise; the queue delivers the batch in the first case and puts
\* it back at the head of the pending sequence in the second.
C22_SendBatchOutcome ==
    [][ResponseStep =>
         LET r == client'.call.response
             acknowledged == r.transport = "ok" /\ r.ok /\ r.body = "success"
         IN  /\ last'.op = (IF acknowledged THEN "resolve" ELSE "reject")
             /\ acknowledged =>
                  /\ events' = events
                  /\ delivered' = Append(delivered, last'.batch)
             /\ ~acknowledged =>
                  /\ events' = last'.batch \o events
                  /\ delivered' = delivered]_vars

\* C22 witness: the endpoint answered 200 with success false and the batch
\* is pending again
C22_Witness ==
    /\ client.call.op = "response"
    /\ client.call.response = [transport |-> "ok", ok |-> TRUE, body |-> "failure"]
    /\ last.op = "reject"
    /\ last.batch # <<>>
    /\ IsPrefix(last.batch, events)
    /\ delivered = <<>>

\* the step is client.track(name)
TrackStep ==
    /\ client'.call.op = "track"
    /\ \/ last' = last /\ client' # client
       \/ last'.op = "add" /\ last' # last

\* the name is empty or consists of whitespace
IsBlankName(name) == \A i \in DOMAIN name : name[i] = Blank

\* C23: track() with an empty or whitespace-only name throws and changes
\* nothing in the queue, its slot and the sender's invocations; track() with
\* any other name passes exactly one new event to the queue (it is the last
\* pending event, or the last event of the batch this add() sent).
C23_TrackValidates ==
    [][TrackStep =>
         IF IsBlankName(client'.call.name)
         THEN /\ client'.call.threw
              /\ UNCHANGED <<events, slot, isProcessing, sent, outstanding, nextId>>
         ELSE /\ ~client'.call.threw
              /\ nextId' = nextId + 1
              /\ IF last'.started
                 THEN last'.batch = Append(events, TrackEvent(nextId, client.user))
                 ELSE events' = Append(events, TrackEvent(nextId, client.user))]_vars

\* C23 witness: track() with a whitespace-only name threw while an event was
\* pending
C23_Witness ==
    /\ client.call.op = "track"
    /\ client.call.threw
    /\ client.call.name = <<Blank, Blank>>
    /\ Len(events) = 1
    /\ slot = ArraySlot(events)

\* the step is client.identify(u) with a valid user
IdentifyStep ==
    /\ client'.call.op = "identify"
    /\ ~client'.call.threw
    /\ last'.op = "add"
    /\ last' # last

\* C24: after identify(u) with a valid u, getUser() returns u; a client
\* constructed later on the same storage, with no reset() since, has a user
\* with the id of the user the earlier client had.
C24_UserSurvivesReload ==
    /\ [][IdentifyStep => client'.user = client'.call.user]_vars
    /\ [][(restarts' = restarts + 1 /\ client.user # <<>>) =>
            /\ client'.user # <<>>
            /\ client'.user[1].id = client.user[1].id]_vars

\* C24 witness: the client constructed after a reload has the identified
\* user, read back from its JSON text
C24_Witness ==
    /\ client.call.op = "construct"
    /\ restarts > 0
    /\ client.user # <<>>
    /\ client.user[1].id = <<"u">>
    /\ client.user[1].email = "absent"

\* C25 as stated: reset() leaves no user, no pending event and no persisted
\* entry, and no event tracked before the last reset() is pending or gets
\* delivered after it.  A batch in flight at reset() is still delivered when
\* its request succeeds and is put back, in memory and in the slot, when it
\* fails.
C25_Original ==
    /\ [][ResetStep =>
            /\ client'.user = <<>>
            /\ client'.userSlot = <<>>
            /\ events' = <<>>
            /\ slot' = AbsentSlot]_vars
    /\ [](\A i \in DOMAIN events : events[i].id >= client.resetAt)
    /\ [](loadPersistedEvents(slot, TRUE) # <<>> =>
            \A i \in DOMAIN slot.val : slot.val[i].id >= client.resetAt)
    /\ [](last.op = "resolve" =>
            \A i \in DOMAIN last.batch : last.batch[i].id >= client.resetAt)

\* C31: only add(), flush() and the timer callback start a sender
\* invocation.  A settlement starts none and leaves the pending events (after
\* a failure: the batch put back in front of them) waiting, a construction
\* starts none whatever it restored, and the next add(), flush() or tick that
\* finds the queue idle with batchSize or more events pending sends them all.
C31_OnlyCallsStartDelivery ==
    /\ [][Len(sent') > Len(sent) => last'.op \in {"add", "flush", "tick"}]_vars
    /\ [][QueueStep({"resolve", "reject"}) =>
            /\ sent' = sent
            /\ Len(outstanding') < Len(outstanding)
            /\ ~isProcessing'
            /\ events' = (IF last'.op = "reject" THEN last'.batch \o events ELSE events)]_vars
    /\ [][restarts' = restarts + 1 =>
            /\ sent' = <<>>
            /\ outstanding' = <<>>
            /\ ~isProcessing'
            /\ events' = loadPersistedEvents(slot, TRUE)]_vars
    /\ [][(~isProcessing /\ Len(events) >= batchSize /\ QueueStep({"add", "flush", "tick"})) =>
            /\ last'.started
            /\ IsPrefix(events, last'.batch)]_vars

\* C31 witness: a failed delivery left batchSize events pending and idle
C31_Witness ==
    /\ last.op = "reject"
    /\ Len(events) >= batchSize
    /\ ~isProcessing
    /\ outstanding = <<>>
    /\ Len(sent) = 1

\* C31 witness, second case: a construction restored batchSize events and
\* sent nothing
C31_WitnessRestored ==
    /\ last.op = "construct"
    /\ restarts > 0
    /\ Len(events) >= batchSize
    /\ sent = <<>>
    /\ ~isProcessing

\* the ids of the events of a sequence
Ids(seq) == {seq[i].id : i \in DOMAIN seq}

\* C33: while a delivery is in flight the persisted slot holds the pending
\* sequence (the events added since the flush started, or nothing after a
\* clear()) and none of the events in flight; a queue constructed
\* while a delivery is in flight restores none of that batch's events.
C33_InFlightNotPersisted ==
    /\ [](outstanding # <<>> =>
            /\ loadPersistedEvents(slot, TRUE) = JSONRoundTrip(events)
            /\ Ids(loadPersistedEvents(slot, TRUE)) \cap Ids(InFlight) = {})
    /\ [][(restarts' = restarts + 1 /\ outstanding # <<>>) =>
            /\ Ids(events') \cap Ids(InFlight) = {}
            /\ events' = JSONRoundTrip(events)]_vars

\* C33 witness: the page was reloaded during a delivery; the new queue has
\* the event added during the flight and not the batch
C33_Witness ==
    /\ last.op = "construct"
    /\ restarts > 0
    /\ Len(last.batch) >= batchSize
    /\ Len(events) = 1
    /\ Ids(events) \cap Ids(last.batch) = {}

\* C34: within one instance every event is in at most one batch whose
\* sender invocation resolved, no event of such a batch is pending or in
\* flight again, and an event is handed to the sender at most once more
\* than deliveries have failed.
C34_DeliveredOnce ==
    /\ \A id \in Ids(Flatten(delivered)) :
         /\ Count(Flatten(delivered), id) = 1
         /\ Count(events, id) = 0
         /\ Count(InFlight, id) = 0
    /\ \A id \in Ids(Flatten(sent)) : Count(Flatten(sent), id) <= 1 + failures
    /\ failures = 0 => \A id \in Ids(Flatten(sent)) : Count(Flatten(sent), id) = 1

\* C34 witness: an event was handed to the sender twice, in a failed batch
\* and in the retry that delivered it
C34_Witness ==
    /\ last.op = "resolve"
    /\ failures = 1
    /\ Len(sent) = 2
    /\ Count(Flatten(sent), last.batch[1].id) = 2
    /\ Count(Flatten(delivered), last.batch[1].id) = 1
    /\ events = <<>>

\* C35: a construction that finds the entry absent, not parseable, not an
\* array, or localStorage throwing starts with an empty pending sequence and
\* a running timer and invokes no sender.
C35_ConstructionTolerant ==
    /\ [][(restarts' = restarts + 1 /\ (~storageOk \/ slot.kind # "array")) =>
            /\ events' = <<>>
            /\ timerActive'
            /\ ~isProcessing'
            /\ sent' = <<>>
            /\ outstanding' = <<>>
            /\ slot' = slot]_vars
    /\ []((last.op = "construct" /\ restarts = 0) =>
            /\ slot.kind # "array"
            /\ events = <<>>
            /\ timerActive
            /\ ~isProcessing
            /\ sent = <<>>)

\* C35 witness: localStorage throws at construction while the entry holds a
\* pending event; the new queue is empty
C35_Witness ==
    /\ last.op = "construct"
    /\ restarts > 0
    /\ ~storageOk
    /\ slot.kind = "array"
    /\ slot.val # <<>>
    /\ events = <<>>
    /\ timerActive

\* C35 witness, second case: the entry is not an array at construction
C35_WitnessNotArray ==
    /\ last.op = "construct"
    /\ restarts > 0
    /\ slot.kind \in {"unparseable", "nonarray"}
    /\ events = <<>>
    /\ timerActive

\* the delivery settled by the step was in flight when reset() called
\* queue.clear(): its events were tracked before that reset()
SettlesAcrossReset ==
    /\ ResponseStep
    /\ last'.batch # <<>>
    /\ last'.batch[1].id < client.resetAt

C32_WitnessSuccess ==
    /\ last.op = "resolve"
    /\ client.call.op = "response"
    /\ client.resetAt = nextId
    /\ last.batch[1].id < client.resetAt
    /\ events = <<>>
    /\ slot = AbsentSlot

====
